---------------------------- MODULE Spec2Model ----------------------------
(***************************************************************************)
(* Teaching state machine of the tutoring backend (src/src/workflow.py),   *)
(* its quiz scoring (src/src/tools/quiz_generator.py) and the JSON         *)
(* progress store (src/src/database/progress.py).                          *)
(*                                                                         *)
(* A TeachingState is a function from the keys that are present to their   *)
(* values; an absent key is a key outside the DOMAIN.  Texts are sequences *)
(* of tokens, so that strip() and replace() are computed, not assumed.     *)
(* A float k/n is the reduced fraction <<k', n'>>.                         *)
(***************************************************************************)
EXTENDS Integers, Sequences, FiniteSets, TLC

VARIABLES
    st,        \* the channels of the running graph: the TeachingState
    pc,        \* "idle" | node to run next | "END" | "raised"
    trace,     \* nodes executed in this turn, in order
    events,    \* streaming mode: node names of the events yielded so far
    mode,      \* "run" (blocking) | "astream" (streaming)
    input,     \* the state the caller passed in (history)
    failed,    \* nodes in which a collaborator call failed (history)
    exc,       \* exception that reached the caller, "" when none
    db,        \* progress store: user id -> user record
    call,      \* SpecStore: the last update_progress call and the store before it
    ev,        \* SpecEval: questions, answers and the result of evaluate_quiz
    raw,       \* the LLM call of generate_response in this turn (history)
    procs,     \* SpecConc: the store operations in flight, one per thread
    pq,        \* SpecParse: the response text and the result of _parse_quiz_response
    twin       \* SpecSource: the same turn under another source tag

vars == <<st, pc, trace, events, mode, input, failed, exc, db, call, ev, raw, procs, pq, twin>>

---------------------------------------------------------------------------
(* Bounds *)
MaxQuestions == 2      \* questions a generated quiz holds in the graph model
MaxEvalLen == 5        \* length of the sequences given to evaluate_quiz
MaxLesson == 2         \* lesson ids are 1..MaxLesson
MaxCalls == 2          \* update_progress calls in one behaviour of SpecStore
MaxBlocks == 3         \* question blocks in a response given to the quiz parser

(* Program constants *)
PassingNum == 7        \* settings.passing_score = 0.7 = PassingNum / PassingDen
PassingDen == 10
HistoryWindow == 6     \* messages[-6:] used for prompting
HistoryCap == 100      \* conversation_history keeps the last 100 messages

---------------------------------------------------------------------------
(* Optional keys *)
Has(s, k) == k \in DOMAIN s
Get(s, k, d) == IF k \in DOMAIN s THEN s[k] ELSE d
Put(s, k, v) == [x \in (DOMAIN s) \cup {k} |-> IF x = k THEN v ELSE s[x]]
Opt(s, k) == IF k \in DOMAIN s THEN {s[k]} ELSE {}
Last(q) == q[Len(q)]

(* Texts *)
SP == " "
MarkL == "[QUIZ_"
MarkR == "READY]"
Marker == <<MarkL, MarkR>>
Sentinel == <<"__greeting__">>

RECURSIVE LStrip(_)
LStrip(t) == IF t # <<>> /\ Head(t) = SP THEN LStrip(Tail(t)) ELSE t

RECURSIVE RStrip(_)
RStrip(t) == IF t # <<>> /\ Last(t) = SP THEN RStrip(SubSeq(t, 1, Len(t) - 1)) ELSE t

\* str.strip()
Strip(t) == RStrip(LStrip(t))

\* "[QUIZ_READY]" in text
Contains(t) == \E i \in 1..(Len(t) - 1) : t[i] = MarkL /\ t[i + 1] = MarkR

\* text.replace("[QUIZ_READY]", ""): one left-to-right pass
RECURSIVE Replace(_)
Replace(t) ==
    IF Len(t) < 2 THEN t
    ELSE IF t[1] = MarkL /\ t[2] = MarkR THEN Replace(SubSeq(t, 3, Len(t)))
    ELSE <<t[1]>> \o Replace(Tail(t))

(* Floats as reduced fractions *)
RECURSIVE GCD(_, _)
GCD(a, b) == IF b = 0 THEN a ELSE GCD(b, a % b)

Frac(n, d) == <<n \div GCD(n, d), d \div GCD(n, d)>>
Zero == <<0, 1>>
GEq(x, y) == x[1] * y[2] >= y[1] * x[2]

passing_score == Frac(PassingNum, PassingDen)

---------------------------------------------------------------------------
(* Quiz scoring: src/src/tools/quiz_generator.py *)
NoneLabel == "<None>"      \* correct_answer of a block parsed without a "Correct:" line

\* str.upper() on an option label
Upper(c) ==
    CASE c = "a" -> "A"
      [] c = "b" -> "B"
      [] OTHER -> c

is_correct(question, user_answer) == Upper(user_answer) = Upper(question.correct_answer)

correct_count(questions, user_answers) ==
    Cardinality({i \in 1..Len(questions) : is_correct(questions[i], user_answers[i])})

\* The result dict, or [raised |-> exception] when the call raises.
evaluate_quiz(questions, user_answers) ==
    IF Len(questions) # Len(user_answers)
    THEN [raised |-> "ValueError"]
    ELSE IF \E i \in 1..Len(questions) : questions[i].correct_answer = NoneLabel
    THEN [raised |-> "AttributeError"]
    ELSE IF Len(questions) = 0
    THEN [raised |-> "ZeroDivisionError"]
    ELSE LET score == Frac(correct_count(questions, user_answers), Len(questions))
         IN  [raised |-> "",
              total_questions |-> Len(questions),
              correct_answers |-> correct_count(questions, user_answers),
              score |-> score,
              passed |-> GEq(score, passing_score),
              results |-> [i \in 1..Len(questions) |->
                             [user_answer |-> user_answers[i],
                              correct_answer |-> questions[i].correct_answer,
                              is_correct |-> is_correct(questions[i], user_answers[i])]]]

---------------------------------------------------------------------------
(* Quiz parsing: src/src/tools/quiz_generator.py.  A line is a sequence of *)
(* tokens; the response is the sequence of its lines.                      *)
QTokens == {"Q1", "Q2", "Q3", "Q4"}          \* tokens that start with "Q"
OptionTokens == {"A)", "B)", "C)", "D)"}
ColonTokens == {":", "Correct:"}              \* tokens that hold a ":"
NoneText == <<NoneLabel>>                     \* None

\* line.startswith("Q") and ":" in line
IsQuestionLine(line) ==
    line # <<>> /\ Head(line) \in QTokens /\ \E i \in DOMAIN line : line[i] \in ColonTokens
\* line.startswith(("A)", "B)", "C)", "D)"))
IsOptionLine(line) == line # <<>> /\ Head(line) \in OptionTokens
\* line.startswith("Correct:")
IsCorrectLine(line) == line # <<>> /\ Head(line) = "Correct:"

\* line[0] of an option line
LabelOf(tok) ==
    CASE tok = "A)" -> "A"
      [] tok = "B)" -> "B"
      [] tok = "C)" -> "C"
      [] tok = "D)" -> "D"

\* Index of the first token holding a colon, 0 when there is none.
RECURSIVE FirstColon(_, _)
FirstColon(line, i) ==
    IF i > Len(line) THEN 0
    ELSE IF line[i] \in ColonTokens THEN i
    ELSE FirstColon(line, i + 1)

\* line.split(":", 1)[1]
AfterFirstColon(line) == SubSeq(line, FirstColon(line, 1) + 1, Len(line))
\* line.split(":")[1]
BetweenColons(line) ==
    LET rest == AfterFirstColon(line)
        j == FirstColon(rest, 1)
    IN  IF j = 0 THEN rest ELSE SubSeq(rest, 1, j - 1)

\* bool(current_question): None and "" are false
Truthy(text) == text # NoneText /\ text # <<>>

ParsedQuestion(question, options, correct) ==
    [question |-> question, options |-> options, correct_answer |-> correct,
     type |-> "multiple_choice"]

ParserStart ==
    [questions |-> <<>>, current_question |-> NoneText, current_options |-> <<>>,
     current_correct |-> NoneText]

\* questions.append(...) guarded by `if current_question and current_options`
SaveQuestion(a) ==
    IF Truthy(a.current_question) /\ a.current_options # <<>>
    THEN Append(a.questions,
                ParsedQuestion(a.current_question, a.current_options, a.current_correct))
    ELSE a.questions

\* One iteration of the loop over the lines.
ParseLine(a, rawline) ==
    LET line == Strip(rawline)
    IN  IF line = <<>> THEN a
        ELSE IF IsQuestionLine(line)
        THEN [questions |-> SaveQuestion(a),
              current_question |-> Strip(AfterFirstColon(line)),
              current_options |-> <<>>,
              current_correct |-> NoneText]
        ELSE IF IsOptionLine(line)
        THEN [a EXCEPT !.current_options =
                Append(@, [label |-> LabelOf(Head(line)), text |-> Strip(Tail(line))])]
        ELSE IF IsCorrectLine(line)
        THEN [a EXCEPT !.current_correct = Strip(BetweenColons(line))]
        ELSE a

RECURSIVE ParseLines(_, _)
ParseLines(lines, a) ==
    IF lines = <<>> THEN a ELSE ParseLines(Tail(lines), ParseLine(a, Head(lines)))

\* The parser without the save of the last question after the loop.
parse_quiz_response_DropsLast(lines) == ParseLines(lines, ParserStart).questions

parse_quiz_response(lines) == SaveQuestion(ParseLines(lines, ParserStart))

---------------------------------------------------------------------------
(* Progress store: src/src/database/progress.py, src/src/database/connection.py *)
NewUser ==
    [current_lesson_id |-> 1,
     completed_lessons |-> <<>>,
     lesson_scores |-> <<>>,
     conversation_history |-> <<>>]

Range(q) == {q[i] : i \in DOMAIN q}

\* The store after the call; the user returned is the store's record.
get_or_create_user(d, user_id) ==
    IF user_id \in DOMAIN d THEN d ELSE Put(d, user_id, NewUser)

\* update_progress that records the pass but leaves the user on the lesson.
update_progress_NoAdvance(d, user_id, lesson_id, score, passed) ==
    LET d1 == get_or_create_user(d, user_id)
        user == d1[user_id]
        scores == Put(user.lesson_scores, ToString(lesson_id), score)
        advance == passed /\ lesson_id \notin Range(user.completed_lessons)
    IN  Put(d1, user_id,
            [user EXCEPT
               !.lesson_scores = scores,
               !.completed_lessons = IF advance THEN Append(@, lesson_id) ELSE @,
               !.current_lesson_id = lesson_id])

\* update_progress that appends the lesson on every pass.
update_progress_AppendsAgain(d, user_id, lesson_id, score, passed) ==
    LET d1 == get_or_create_user(d, user_id)
        user == d1[user_id]
        scores == Put(user.lesson_scores, ToString(lesson_id), score)
    IN  Put(d1, user_id,
            [user EXCEPT
               !.lesson_scores = scores,
               !.completed_lessons = IF passed THEN Append(@, lesson_id) ELSE @,
               !.current_lesson_id = IF passed THEN lesson_id + 1 ELSE lesson_id])

\* The store after update_progress(user_id, lesson_id, score, passed) returned.
update_progress(d, user_id, lesson_id, score, passed) ==
    LET d1 == get_or_create_user(d, user_id)
        user == d1[user_id]
        scores == Put(user.lesson_scores, ToString(lesson_id), score)
        advance == passed /\ lesson_id \notin Range(user.completed_lessons)
    IN  Put(d1, user_id,
            [user EXCEPT
               !.lesson_scores = scores,
               !.completed_lessons = IF advance THEN Append(@, lesson_id) ELSE @,
               !.current_lesson_id = IF advance THEN lesson_id + 1 ELSE lesson_id])

get_current_lesson_id(d, user_id) == get_or_create_user(d, user_id)[user_id].current_lesson_id

\* JSONDatabase.save_user: the store after the call.
save_user(d, user_id, user_data) == Put(d, user_id, user_data)

\* A cut that keeps the oldest messages instead of the newest.
KeepLast_KeepsFirst(h, n) == IF Len(h) > n THEN SubSeq(h, 1, n) ELSE h

\* conversation_history[-100:]
KeepLast(h, n) == IF Len(h) > n THEN SubSeq(h, Len(h) - n + 1, Len(h)) ELSE h

\* The store after save_message(user_id, sender, text) returned.
save_message(d, user_id, sender, text) ==
    LET d1 == get_or_create_user(d, user_id)
        user == d1[user_id]
        message == [sender |-> sender, text |-> text]
        history == Append(Get(user, "conversation_history", <<>>), message)
    IN  save_user(d1, user_id,
                  Put(user, "conversation_history", KeepLast(history, HistoryCap)))

---------------------------------------------------------------------------
(* Collaborators: what an LLM, retrieval, quiz-generation or store call can do *)
User == "u1"
Title == "Lesson"
Apology == <<"I apologize, I encountered an error. Please try again.">>
FallbackGreeting == <<"Hello! Welcome to ", Title, ". I'm excited to help you improve your English skills today. Shall we begin?">>

LLMFail == [ok |-> FALSE, text |-> <<>>]
\* response.content of the LLM call in generate_response
ResponseOutcomes ==
    {LLMFail} \cup
    {[ok |-> TRUE, text |-> t] :
        t \in {<<"w">>, <<"w", SP, MarkL, MarkR, SP>>, <<MarkL, MarkL, MarkR, MarkR>>}}
\* response.content of the LLM call in greeting
GreetingOutcomes == {LLMFail, [ok |-> TRUE, text |-> <<"welcome">>]}
\* retrieve_relevant_chunks: raises, or returns the passages
RetrievalOutcomes == {[ok |-> FALSE, chunks |-> 0], [ok |-> TRUE, chunks |-> 1]}

Question(c) == [correct_answer |-> c]
SeqsUpTo(S, n) == UNION {[1..k -> S] : k \in 0..n}
\* QuizGenerator.generate_quiz: raises, or returns the parsed questions
QuizOutcomes ==
    {[ok |-> FALSE, questions |-> <<>>]} \cup
    {[ok |-> TRUE, questions |-> q] :
        q \in SeqsUpTo({Question("A")}, MaxQuestions)
              \cup {<<Question("b")>>, <<Question(NoneLabel)>>}}
StoreOutcomes == BOOLEAN      \* TRUE: the store calls return; FALSE: they raise

---------------------------------------------------------------------------
(* The graph: src/src/state.py, src/src/workflow.py *)
\* The keys TeachingState declares: the channels of the compiled graph.
TeachingState ==
    {"user_id", "current_lesson_id", "lesson_title", "messages", "user_input",
     "retrieved_content", "teacher_response", "llm_response", "phase",
     "quiz_questions", "quiz_answers", "quiz_score", "quiz_passed",
     "next_action", "source", "error"}

\* A message dict as the callers and generate_response build it.
Msg(role, content) == [role |-> role, content |-> content]

\* The message object add_messages makes of a dict; ids stand for uuids.
Message(m, id) == [role |-> m.role, content |-> m.content, id |-> id]

HasId(m) == "id" \in DOMAIN m

RECURSIVE MaxId(_)
MaxId(q) ==
    IF q = <<>> THEN 0
    ELSE LET rest == MaxId(Tail(q))
             id == IF HasId(Head(q)) THEN Head(q).id ELSE 0
         IN  IF id > rest THEN id ELSE rest

\* convert_to_messages, then a fresh id for every message that has none.
RECURSIVE AssignIds(_, _)
AssignIds(q, n) ==
    IF q = <<>> THEN <<>>
    ELSE IF HasId(Head(q)) THEN <<Head(q)>> \o AssignIds(Tail(q), n)
    ELSE <<Message(Head(q), n + 1)>> \o AssignIds(Tail(q), n + 1)

\* The reducer of the messages channel: a message of `right` replaces the
\* message of `left` with its id, or is appended when no message has it.
add_messages(left, right) ==
    LET fresh == MaxId(left \o right)
        l == AssignIds(left, fresh)
        r == AssignIds(right, MaxId(l))
        ids == {l[i].id : i \in DOMAIN l}
        pos(id) == CHOOSE j \in DOMAIN r :
                      r[j].id = id /\ \A k \in DOMAIN r : r[k].id = id => k <= j
    IN  [i \in DOMAIN l |->
            IF \E j \in DOMAIN r : r[j].id = l[i].id THEN r[pos(l[i].id)] ELSE l[i]]
        \o SelectSeq(r, LAMBDA m : m.id \notin ids)

\* The values a node's returned dict writes: a key the schema does not
\* declare has no channel and is not kept.
Writes(ret) == [k \in (DOMAIN ret) \cap TeachingState |-> ret[k]]

\* The channels after the write.  A node is handed the list the messages
\* channel holds and returns that same list, so the reducer is applied with
\* the returned list on both sides.
ChannelWrite(ret) ==
    LET w == Writes(ret)
    IN  IF "messages" \in DOMAIN w
        THEN [w EXCEPT !["messages"] = add_messages(@, @)]
        ELSE w

\* The channels after the caller's input is written: the channel is empty.
InputWrite(inp) ==
    LET w == Writes(inp)
    IN  IF "messages" \in DOMAIN w
        THEN [w EXCEPT !["messages"] = add_messages(<<>>, @)]
        ELSE w

greeting_node(s, llm) ==
    LET user_input == Strip(Get(s, "user_input", <<>>))
        is_greeting_request == user_input = <<>> \/ user_input = Sentinel
    IN  IF ~is_greeting_request
        THEN Put(s, "is_greeting", FALSE)
        ELSE Put(Put(s, "is_greeting", TRUE), "teacher_response",
                 IF llm.ok THEN llm.text ELSE FallbackGreeting)

\* retrieve_content_node that recovers from a failed retrieval without a trace.
retrieve_content_node_Silent(s, r) ==
    IF r.ok
    THEN Put(s, "retrieved_content", [i \in 1..r.chunks |-> "[Section]"])
    ELSE Put(s, "retrieved_content", <<>>)

retrieve_content_node(s, r) ==
    IF r.ok
    THEN Put(s, "retrieved_content", [i \in 1..r.chunks |-> "[Section]"])
    ELSE Put(Put(s, "error", "retrieval"), "retrieved_content", <<>>)

generate_response_node(s, llm) ==
    IF llm.ok
    THEN LET quiz_ready == Contains(llm.text)
             response_text == IF quiz_ready THEN Strip(Replace(llm.text)) ELSE llm.text
             s1 == IF quiz_ready THEN Put(s, "next_action", "quiz") ELSE s
             s2 == Put(Put(s1, "teacher_response", response_text), "llm_response", llm.text)
         IN  Put(s2, "messages",
                 s["messages"] \o <<Msg("user", s["user_input"]),
                                    Msg("assistant", response_text)>>)
    ELSE Put(Put(s, "error", "llm"), "teacher_response", Apology)

\* generate_quiz_node that writes the zero score on success too.
generate_quiz_node_ZeroOnSuccess(s, q) ==
    IF q.ok
    THEN Put(Put(Put(Put(s, "quiz_questions", q.questions), "phase", "quiz"),
                 "quiz_score", Zero), "quiz_passed", FALSE)
    ELSE Put(Put(Put(Put(s, "error", "quiz generation"),
                     "quiz_questions", <<>>), "quiz_score", Zero), "quiz_passed", FALSE)

generate_quiz_node(s, q) ==
    IF q.ok
    THEN Put(Put(s, "quiz_questions", q.questions), "phase", "quiz")
    ELSE Put(Put(Put(Put(s, "error", "quiz generation"),
                     "quiz_questions", <<>>), "quiz_score", Zero), "quiz_passed", FALSE)

\* evaluate_quiz_node that treats missing answers like a failed evaluation.
evaluate_quiz_node_DefaultsOnMissing(s) ==
    IF Get(s, "quiz_answers", <<>>) = <<>>
    THEN Put(Put(Put(s, "error", "No quiz answers provided"),
                 "quiz_score", Zero), "quiz_passed", FALSE)
    ELSE LET results == evaluate_quiz(s["quiz_questions"], s["quiz_answers"])
         IN  IF results.raised = ""
             THEN Put(Put(Put(s, "quiz_score", results.score),
                          "quiz_passed", results.passed), "phase", "evaluation")
             ELSE Put(Put(Put(s, "error", results.raised),
                          "quiz_score", Zero), "quiz_passed", FALSE)

evaluate_quiz_node(s) ==
    IF Get(s, "quiz_answers", <<>>) = <<>>
    THEN Put(s, "error", "No quiz answers provided")
    ELSE LET results == evaluate_quiz(s["quiz_questions"], s["quiz_answers"])
         IN  IF results.raised = ""
             THEN Put(Put(Put(s, "quiz_score", results.score),
                          "quiz_passed", results.passed), "phase", "evaluation")
             ELSE Put(Put(Put(s, "error", results.raised),
                          "quiz_score", Zero), "quiz_passed", FALSE)

\* update_progress_node that marks the lesson completed whatever the quiz result.
update_progress_node_AlwaysCompleted(s, d, store_ok) ==
    LET quiz_score == Get(s, "quiz_score", Zero)
        quiz_passed == Get(s, "quiz_passed", FALSE)
        d1 == update_progress(d, s["user_id"], s["current_lesson_id"], quiz_score, quiz_passed)
        next_lesson_id == get_current_lesson_id(d1, s["user_id"])
    IN  IF ~store_ok
        THEN [ret |-> Put(s, "error", "store"), db |-> d]
        ELSE IF quiz_passed
        THEN [ret |-> Put(Put(s, "next_action",
                              IF next_lesson_id > s["current_lesson_id"]
                              THEN "next_lesson" ELSE "continue"),
                          "phase", "completed"),
              db |-> d1]
        ELSE [ret |-> Put(Put(s, "next_action", "retry"), "phase", "completed"),
              db |-> d1]

\* update_progress_node that compares the stored lesson with >= instead of >.
update_progress_node_GreaterEq(s, d, store_ok) ==
    LET quiz_score == Get(s, "quiz_score", Zero)
        quiz_passed == Get(s, "quiz_passed", FALSE)
        d1 == update_progress(d, s["user_id"], s["current_lesson_id"], quiz_score, quiz_passed)
        next_lesson_id == get_current_lesson_id(d1, s["user_id"])
    IN  IF ~store_ok
        THEN [ret |-> Put(s, "error", "store"), db |-> d]
        ELSE IF quiz_passed
        THEN [ret |-> Put(Put(s, "next_action",
                              IF next_lesson_id >= s["current_lesson_id"]
                              THEN "next_lesson" ELSE "continue"),
                          "phase", "completed"),
              db |-> d1]
        ELSE [ret |-> Put(Put(s, "next_action", "retry"), "phase", "teaching"),
              db |-> d1]

\* The returned state and the store after the node.
update_progress_node(s, d, store_ok) ==
    LET quiz_score == Get(s, "quiz_score", Zero)
        quiz_passed == Get(s, "quiz_passed", FALSE)
        d1 == update_progress(d, s["user_id"], s["current_lesson_id"], quiz_score, quiz_passed)
        next_lesson_id == get_current_lesson_id(d1, s["user_id"])
    IN  IF ~store_ok
        THEN [ret |-> Put(s, "error", "store"), db |-> d]
        ELSE IF quiz_passed
        THEN [ret |-> Put(Put(s, "next_action",
                              IF next_lesson_id > s["current_lesson_id"]
                              THEN "next_lesson" ELSE "continue"),
                          "phase", "completed"),
              db |-> d1]
        ELSE [ret |-> Put(Put(s, "next_action", "retry"), "phase", "teaching"),
              db |-> d1]

route_after_greeting(s) == IF Get(s, "is_greeting", FALSE) THEN "greet" ELSE "continue"

\* route_after_response that also sends a retry to the quiz.
route_after_response_QuizOnRetry(s) ==
    LET next_action == Get(s, "next_action", "continue")
    IN  IF next_action \in {"quiz", "retry"} THEN "quiz"
        ELSE IF next_action = "exit" THEN "exit"
        ELSE "continue"

\* route_after_response that lets a voice turn skip the quiz.
route_after_response_VoiceSkipsQuiz(s) ==
    LET next_action == Get(s, "next_action", "continue")
    IN  IF next_action = "quiz" /\ Get(s, "source", "") # "voice" THEN "quiz"
        ELSE IF next_action = "exit" THEN "exit"
        ELSE "continue"

route_after_response(s) ==
    LET next_action == Get(s, "next_action", "continue")
    IN  IF next_action = "quiz" THEN "quiz"
        ELSE IF next_action = "exit" THEN "exit"
        ELSE "continue"

route_after_progress(s) == Get(s, "next_action", "continue")

\* _build_graph: the path maps of the conditional edges and the fixed edges
\* The path map of greeting with `continue` wired straight to generate_response.
greeting_edges_SkipRetrieve == [greet |-> "END", continue |-> "generate_response"]

greeting_edges == [greet |-> "END", continue |-> "retrieve_content"]
response_edges == [continue |-> "END", quiz |-> "generate_quiz", exit |-> "END"]
progress_edges == [next_lesson |-> "END", retry |-> "END", continue |-> "END"]
\* The fixed edges with generate_quiz wired straight to update_progress.
edge_SkipEvaluate ==
    [retrieve_content |-> "generate_response",
     generate_quiz |-> "update_progress",
     evaluate_quiz |-> "update_progress"]

edge ==
    [retrieve_content |-> "generate_response",
     generate_quiz |-> "evaluate_quiz",
     evaluate_quiz |-> "update_progress"]

\* A conditional edge looks the route up in its path map; a route the map
\* does not hold raises KeyError out of the graph.
Branch(ends, route) == IF route \in DOMAIN ends THEN ends[route] ELSE "raised"

---------------------------------------------------------------------------
(* The states callers hand to the graph *)
Lessons == 1..MaxLesson
Histories == {<<>>, <<Msg("user", <<"hi">>), Msg("assistant", <<"hello">>)>>}
UserInputs == {<<>>, <<SP>>, Sentinel, <<"hi">>}
Answers == SeqsUpTo({"a", "B"}, MaxQuestions)

Base(L, m, u) ==
    [user_id |-> User, current_lesson_id |-> L, lesson_title |-> Title,
     messages |-> m, user_input |-> u]

PutAll(s, r) == [k \in (DOMAIN s) \cup (DOMAIN r) |-> IF k \in DOMAIN r THEN r[k] ELSE s[k]]

\* api/websocket.py handle_init (106-112), base_agent.py (42-48)
InitStates ==
    {Base(L, m, Sentinel) : L \in Lessons, m \in Histories}
    \cup {Base(1, <<>>, u) : u \in UserInputs}

\* api/websocket.py handle_message (219-228), main.py run (88-96)
MessageStates ==
    {PutAll(Base(L, m, u), [phase |-> "teaching", next_action |-> a, source |-> "ui"]) :
        L \in Lessons, m \in Histories, u \in UserInputs, a \in {"continue", "quiz", "exit"}}

\* main.py handle_quiz (123-134), tests/test_langgraph.py (49-59)
QuizStates ==
    {PutAll(Base(L, m, <<"Start quiz">>), [phase |-> "quiz", next_action |-> "quiz"]) :
        L \in Lessons, m \in Histories}
    \cup {PutAll(Base(L, m, <<"Start quiz">>),
                 [phase |-> "quiz", next_action |-> "quiz", quiz_answers |-> a]) :
            L \in Lessons, m \in Histories, a \in Answers}

\* A state an earlier run returned, handed in again: main.py run (98-99)
\* resets user_input and next_action, handle_quiz (167-168) sets quiz_answers.
Returned ==
    {[phase |-> "teaching", teacher_response |-> <<"w">>, retrieved_content |-> <<>>,
      llm_response |-> <<"w">>],
     [phase |-> "teaching", teacher_response |-> Apology, retrieved_content |-> <<>>,
      error |-> "llm"],
     [phase |-> "completed", teacher_response |-> <<"w">>, retrieved_content |-> <<>>,
      quiz_questions |-> <<Question("A")>>, quiz_answers |-> <<"a">>,
      quiz_score |-> Frac(1, 1), quiz_passed |-> TRUE,
      llm_response |-> <<"w", SP, MarkL, MarkR, SP>>],
     [phase |-> "teaching", teacher_response |-> <<"w">>, retrieved_content |-> <<>>,
      quiz_questions |-> <<Question("A")>>, quiz_answers |-> <<"B">>,
      quiz_score |-> Zero, quiz_passed |-> FALSE],
     [phase |-> "teaching", teacher_response |-> <<"w">>, retrieved_content |-> <<>>,
      quiz_questions |-> <<Question("A")>>, error |-> "No quiz answers provided"]}

ReusedStates ==
    {PutAll(PutAll(Base(L, <<>>, <<"hi">>), r), [next_action |-> a]) :
        L \in Lessons, r \in Returned, a \in {"continue", "retry", "next_lesson"}}
    \cup {PutAll(PutAll(Base(L, <<>>, <<"Start quiz">>), r),
                 [next_action |-> "retry", quiz_answers |-> a]) :
            L \in Lessons, r \in Returned, a \in Answers \ {<<>>}}

Inputs == InitStates \cup MessageStates \cup QuizStates \cup ReusedStates

\* Stores the graph starts from: no user yet, a new user, a user past lesson 1.
GraphStores ==
    {<<>>,
     [u \in {User} |-> NewUser],
     [u \in {User} |->
        [current_lesson_id |-> 2, completed_lessons |-> <<1>>,
         lesson_scores |-> Put(<<>>, ToString(1), Frac(1, 1)),
         conversation_history |-> <<>>]]}

NoCall == [n |-> 0]
NoEval == [called |-> FALSE]
NoLLM == [called |-> FALSE]
NoParse == [called |-> FALSE]
NoProcs == [store0 |-> <<>>, thread |-> <<>>]
NoTwin == [pc |-> "none"]

Init ==
    /\ input \in Inputs
    /\ st = InputWrite(input)
    /\ pc = "greeting"
    /\ trace = <<>>
    /\ events = <<>>
    /\ mode \in {"run", "astream"}
    /\ failed = {}
    /\ exc = ""
    /\ db \in GraphStores
    /\ call = NoCall
    /\ ev = NoEval
    /\ raw = NoLLM
    /\ procs = NoProcs
    /\ pq = NoParse
    /\ twin = NoTwin

---------------------------------------------------------------------------
(* One action per node: the node, the write of its result, and its edge *)
Event(node, ret) == [node |-> node, output |-> Writes(ret)]

\* The step of the graph that runs `node`: ret is the dict the node returned,
\* to the node the edge leads to, d the store after the node, llm the LLM call
\* of generate_response once it was made.
Step(node, ret, to, d, fails, llm) ==
    /\ trace' = Append(trace, node)
    /\ failed' = failed \cup fails
    /\ db' = d
    /\ pc' = to
    /\ IF to = "raised"
       THEN /\ exc' = "KeyError"
            /\ UNCHANGED <<st, events>>
       ELSE /\ st' = ChannelWrite(ret)
            /\ events' = IF mode = "astream" THEN Append(events, Event(node, ret)) ELSE events
            /\ UNCHANGED exc
    /\ raw' = llm
    /\ UNCHANGED <<mode, input, call, ev, procs, pq, twin>>

IsGreetingRequest(s) ==
    LET user_input == Strip(Get(s, "user_input", <<>>))
    IN  user_input = <<>> \/ user_input = Sentinel

Greeting ==
    /\ pc = "greeting"
    /\ \E llm \in GreetingOutcomes :
         LET ret == greeting_node(st, llm)
         IN  Step("greeting", ret,
                  Branch(greeting_edges, route_after_greeting(ChannelWrite(ret))), db,
                  IF IsGreetingRequest(st) /\ ~llm.ok THEN {"greeting"} ELSE {}, raw)

RetrieveContent ==
    /\ pc = "retrieve_content"
    /\ \E r \in RetrievalOutcomes :
         Step("retrieve_content", retrieve_content_node(st, r), edge["retrieve_content"], db,
              IF r.ok THEN {} ELSE {"retrieve_content"}, raw)

GenerateResponse ==
    /\ pc = "generate_response"
    /\ \E llm \in ResponseOutcomes :
         LET ret == generate_response_node(st, llm)
         IN  Step("generate_response", ret,
                  Branch(response_edges, route_after_response(ChannelWrite(ret))), db,
                  IF llm.ok THEN {} ELSE {"generate_response"},
                  [called |-> TRUE, ok |-> llm.ok, text |-> llm.text])

GenerateQuiz ==
    /\ pc = "generate_quiz"
    /\ \E q \in QuizOutcomes :
         Step("generate_quiz", generate_quiz_node(st, q), edge["generate_quiz"], db,
              IF q.ok THEN {} ELSE {"generate_quiz"}, raw)

EvaluateQuiz ==
    /\ pc = "evaluate_quiz"
    /\ Step("evaluate_quiz", evaluate_quiz_node(st), edge["evaluate_quiz"], db, {}, raw)

UpdateProgress ==
    /\ pc = "update_progress"
    /\ \E store_ok \in StoreOutcomes :
         LET r == update_progress_node(st, db, store_ok)
         IN  Step("update_progress", r.ret,
                  Branch(progress_edges, route_after_progress(ChannelWrite(r.ret))), r.db,
                  IF store_ok THEN {} ELSE {"update_progress"}, raw)

Next ==
    \/ Greeting
    \/ RetrieveContent
    \/ GenerateResponse
    \/ GenerateQuiz
    \/ EvaluateQuiz
    \/ UpdateProgress

Spec == Init /\ [][Next]_vars

---------------------------------------------------------------------------
(* evaluate_quiz as a function: inputs drawn in Init, one call *)
EvalQuestions == SeqsUpTo({Question("A"), Question("b")}, MaxEvalLen)
EvalAnswers == SeqsUpTo({"a", "B"}, MaxEvalLen)

InitEval ==
    /\ ev \in {[called |-> FALSE, questions |-> q, user_answers |-> a] :
                 q \in EvalQuestions, a \in EvalAnswers}
    /\ st = <<>> /\ pc = "idle" /\ trace = <<>> /\ events = <<>> /\ mode = "run"
    /\ input = <<>> /\ failed = {} /\ exc = "" /\ db = <<>> /\ call = NoCall
    /\ raw = NoLLM /\ procs = NoProcs /\ pq = NoParse /\ twin = NoTwin

CallEvaluate ==
    /\ ~ev.called
    /\ ev' = [called |-> TRUE, questions |-> ev.questions, user_answers |-> ev.user_answers,
              results |-> evaluate_quiz(ev.questions, ev.user_answers)]
    /\ UNCHANGED <<st, pc, trace, events, mode, input, failed, exc, db, call, raw, procs, pq, twin>>

NextEval == CallEvaluate

SpecEval == InitEval /\ [][NextEval]_vars

---------------------------------------------------------------------------
(* The progress store under sequences of update_progress calls *)
Scores == {Zero, Frac(1, 1)}
NoDup(q) == Cardinality(Range(q)) = Len(q)
ScoreKeys == {ToString(L) : L \in Lessons}

UserRecords ==
    {[current_lesson_id |-> c, completed_lessons |-> done, lesson_scores |-> sc,
      conversation_history |-> <<>>] :
        c \in 1..(MaxLesson + 1),
        done \in {q \in SeqsUpTo(Lessons, MaxLesson) : NoDup(q)},
        sc \in UNION {[K -> Scores] : K \in SUBSET ScoreKeys}}

PriorStores == {<<>>} \cup {[u \in {User} |-> r] : r \in UserRecords}

InitStore ==
    /\ db \in PriorStores
    /\ call = NoCall
    /\ st = <<>> /\ pc = "idle" /\ trace = <<>> /\ events = <<>> /\ mode = "run"
    /\ input = <<>> /\ failed = {} /\ exc = "" /\ ev = NoEval
    /\ raw = NoLLM /\ procs = NoProcs /\ pq = NoParse /\ twin = NoTwin

CallUpdateProgress ==
    /\ call.n < MaxCalls
    /\ \E L \in Lessons, score \in Scores, passed \in BOOLEAN :
         /\ db' = update_progress(db, User, L, score, passed)
         /\ call' = [n |-> call.n + 1, before |-> db, lesson_id |-> L,
                     score |-> score, passed |-> passed]
    /\ UNCHANGED <<st, pc, trace, events, mode, input, failed, exc, ev, raw, procs, pq, twin>>

NextStore == CallUpdateProgress

SpecStore == InitStore /\ [][NextStore]_vars

---------------------------------------------------------------------------
(* Sequences of save_message calls on one user's record *)
\* The k messages saved before the first call of the run, oldest first.
Saved(k) == [i \in 1..k |-> [sender |-> "user", text |-> <<ToString(i)>>]]

\* A record written before conversation_history existed.
LegacyUser ==
    [current_lesson_id |-> 1, completed_lessons |-> <<>>, lesson_scores |-> <<>>]

\* The stores the calls start from: no user, a record without a history, and
\* histories that are empty, one short of the cap, and at the cap.
HistoryStores ==
    {<<>>, [u \in {User} |-> LegacyUser]}
    \cup {[u \in {User} |-> [NewUser EXCEPT !.conversation_history = Saved(k)]] :
            k \in {0, HistoryCap - 1, HistoryCap}}

Senders == {"user", "assistant"}
MessageTexts == {<<>>, <<"hi">>, <<"w">>}

InitHistory ==
    /\ db \in HistoryStores
    /\ call = [n |-> 0,
               saved |-> IF User \in DOMAIN db
                         THEN Get(db[User], "conversation_history", <<>>) ELSE <<>>]
    /\ st = <<>> /\ pc = "idle" /\ trace = <<>> /\ events = <<>> /\ mode = "run"
    /\ input = <<>> /\ failed = {} /\ exc = "" /\ ev = NoEval
    /\ raw = NoLLM /\ procs = NoProcs /\ pq = NoParse /\ twin = NoTwin

CallSaveMessage ==
    /\ call.n < MaxCalls
    /\ \E sender \in Senders, text \in MessageTexts :
         /\ db' = save_message(db, User, sender, text)
         /\ call' = [n |-> call.n + 1,
                     saved |-> Append(call.saved, [sender |-> sender, text |-> text])]
    /\ UNCHANGED <<st, pc, trace, events, mode, input, failed, exc, ev, raw, procs, pq, twin>>

NextHistory == CallSaveMessage

SpecHistory == InitHistory /\ [][NextHistory]_vars

---------------------------------------------------------------------------
(* Two store operations on two threads.  _read_data and _write_data each   *)
(* take the lock for one file access, so a step is one locked read or one  *)
(* locked write; what a thread computes in between is local to it.         *)
User2 == "u2"
ConcUsers == {User, User2}
Threads == 1..2

StoreOps ==
    {[op |-> "update_progress", user_id |-> u, lesson_id |-> L,
      score |-> IF passed THEN Frac(1, 1) ELSE Zero, passed |-> passed] :
        u \in ConcUsers, L \in Lessons, passed \in BOOLEAN}
    \cup {[op |-> "save_message", user_id |-> u, sender |-> x, text |-> <<"hi">>] :
            u \in ConcUsers, x \in {"user", "assistant"}}
    \cup {[op |-> "save_user", user_id |-> u,
            user_data |-> [NewUser EXCEPT !.current_lesson_id = 2]] : u \in ConcUsers}

\* The store after the operation ran alone.
Apply(o, d) ==
    CASE o.op = "update_progress" ->
           update_progress(d, o.user_id, o.lesson_id, o.score, o.passed)
      [] o.op = "save_message" -> save_message(d, o.user_id, o.sender, o.text)
      [] o.op = "save_user" -> save_user(d, o.user_id, o.user_data)
      [] o.op = "update_progress_node" ->
           update_progress(d, o.s["user_id"], o.s["current_lesson_id"],
                           Get(o.s, "quiz_score", Zero), Get(o.s, "quiz_passed", FALSE))

\* What the operation makes of the user record it fetched, before saving it.
Modified(o, user) == Apply(o, Put(<<>>, o.user_id, user))[o.user_id]

ConcStores ==
    {<<>>,
     [u \in {User} |-> NewUser],
     [u \in ConcUsers |-> NewUser]}

Thread(o) ==
    [o |-> o, pc |-> IF o.op = "save_user" THEN "save_read" ELSE "get_user",
     user |-> IF o.op = "save_user" THEN o.user_data ELSE <<>>, data |-> <<>>,
     result |-> <<>>]

InitConc ==
    /\ db \in ConcStores
    /\ \E o1 \in StoreOps, o2 \in StoreOps :
         procs = [store0 |-> db, thread |-> <<Thread(o1), Thread(o2)>>]
    /\ st = <<>> /\ pc = "idle" /\ trace = <<>> /\ events = <<>> /\ mode = "run"
    /\ input = <<>> /\ failed = {} /\ exc = "" /\ call = NoCall /\ ev = NoEval
    /\ raw = NoLLM /\ pq = NoParse /\ twin = NoTwin

SetThread(t, r) == procs' = [procs EXCEPT !.thread[t] = r]

ConcFrame == UNCHANGED <<st, pc, trace, events, mode, input, failed, exc, call, ev, raw, pq, twin>>

\* get_or_create_user: db.get_user reads the file and picks the user's record.
GetUser(t) ==
    LET p == procs.thread[t]
    IN  /\ p.pc = "get_user"
        /\ IF p.o.user_id \in DOMAIN db
           THEN SetThread(t, [p EXCEPT !.user = Modified(p.o, db[p.o.user_id]),
                                       !.pc = "save_read"])
           ELSE SetThread(t, [p EXCEPT !.user = NewUser, !.pc = "create_read"])
        /\ UNCHANGED db
        /\ ConcFrame

\* save_user of the new record: the read of the file.
CreateRead(t) ==
    LET p == procs.thread[t]
    IN  /\ p.pc = "create_read"
        /\ SetThread(t, [p EXCEPT !.data = Put(db, p.o.user_id, p.user),
                                   !.pc = "create_write"])
        /\ UNCHANGED db
        /\ ConcFrame

\* save_user of the new record: the write of the file.
CreateWrite(t) ==
    LET p == procs.thread[t]
    IN  /\ p.pc = "create_write"
        /\ db' = p.data
        /\ SetThread(t, [p EXCEPT !.user = Modified(p.o, p.user), !.data = <<>>,
                                   !.pc = "save_read"])
        /\ ConcFrame

\* save_user of the modified record: the read of the file.
SaveRead(t) ==
    LET p == procs.thread[t]
    IN  /\ p.pc = "save_read"
        /\ SetThread(t, [p EXCEPT !.data = Put(db, p.o.user_id, p.user),
                                   !.pc = "save_write"])
        /\ UNCHANGED db
        /\ ConcFrame

\* save_user of the modified record: the write of the file.
SaveWrite(t) ==
    LET p == procs.thread[t]
    IN  /\ p.pc = "save_write"
        /\ db' = p.data
        /\ SetThread(t, [p EXCEPT !.data = <<>>,
                                   !.pc = IF p.o.op = "update_progress_node"
                                          THEN "get_lesson" ELSE "done"])
        /\ ConcFrame

NextConc ==
    \/ \E t \in Threads : GetUser(t)
    \/ \E t \in Threads : CreateRead(t)
    \/ \E t \in Threads : CreateWrite(t)
    \/ \E t \in Threads : SaveRead(t)
    \/ \E t \in Threads : SaveWrite(t)

SpecConc == InitConc /\ [][NextConc]_vars

---------------------------------------------------------------------------
(* Two quiz turns on two threads, one per user, at their update_progress   *)
(* node: update_progress, then get_current_lesson_id, on the shared file.  *)
TurnState(u, L, passed) ==
    [user_id |-> u, current_lesson_id |-> L, phase |-> "evaluation", next_action |-> "quiz",
     quiz_score |-> IF passed THEN Frac(1, 1) ELSE Zero, quiz_passed |-> passed]

TurnOps(u) ==
    {[op |-> "update_progress_node", user_id |-> u, s |-> TurnState(u, L, passed)] :
        L \in Lessons, passed \in BOOLEAN}

\* What update_progress_node returns once the store reported next_lesson_id.
ProgressResult(s, next_lesson_id) ==
    IF Get(s, "quiz_passed", FALSE)
    THEN Put(Put(s, "next_action",
                 IF next_lesson_id > s["current_lesson_id"] THEN "next_lesson" ELSE "continue"),
             "phase", "completed")
    ELSE Put(Put(s, "next_action", "retry"), "phase", "teaching")

InitTurns ==
    /\ db \in ConcStores
    /\ \E o1 \in TurnOps(User), o2 \in TurnOps(User2) :
         procs = [store0 |-> db, thread |-> <<Thread(o1), Thread(o2)>>]
    /\ st = <<>> /\ pc = "idle" /\ trace = <<>> /\ events = <<>> /\ mode = "run"
    /\ input = <<>> /\ failed = {} /\ exc = "" /\ call = NoCall /\ ev = NoEval
    /\ raw = NoLLM /\ pq = NoParse /\ twin = NoTwin

\* get_current_lesson_id: get_or_create_user reads the file.
GetLesson(t) ==
    LET p == procs.thread[t]
    IN  /\ p.pc = "get_lesson"
        /\ IF p.o.user_id \in DOMAIN db
           THEN SetThread(t, [p EXCEPT
                    !.result = ProgressResult(p.o.s, db[p.o.user_id].current_lesson_id),
                    !.pc = "done"])
           ELSE SetThread(t, [p EXCEPT !.user = NewUser, !.pc = "lesson_create_read"])
        /\ UNCHANGED db
        /\ ConcFrame

\* get_or_create_user inside get_current_lesson_id: save_user's read.
LessonCreateRead(t) ==
    LET p == procs.thread[t]
    IN  /\ p.pc = "lesson_create_read"
        /\ SetThread(t, [p EXCEPT !.data = Put(db, p.o.user_id, p.user),
                                   !.pc = "lesson_create_write"])
        /\ UNCHANGED db
        /\ ConcFrame

\* get_or_create_user inside get_current_lesson_id: save_user's write.
LessonCreateWrite(t) ==
    LET p == procs.thread[t]
    IN  /\ p.pc = "lesson_create_write"
        /\ db' = p.data
        /\ SetThread(t, [p EXCEPT
                 !.result = ProgressResult(p.o.s, p.user.current_lesson_id),
                 !.data = <<>>, !.pc = "done"])
        /\ ConcFrame

NextTurns ==
    \/ NextConc
    \/ \E t \in Threads : GetLesson(t)
    \/ \E t \in Threads : LessonCreateRead(t)
    \/ \E t \in Threads : LessonCreateWrite(t)

SpecTurns == InitTurns /\ [][NextTurns]_vars

---------------------------------------------------------------------------
(* _parse_quiz_response as a function: the response is drawn in Init from  *)
(* question blocks, written out as lines, and parsed by one call.          *)
OptionText(label) ==
    CASE label = "A" -> "ta"
      [] label = "B" -> "tb"
      [] label = "C" -> "tc"
      [] label = "D" -> "td"

QToken(n) == CASE n = 1 -> "Q1" [] n = 2 -> "Q2" [] n = 3 -> "Q3" [] OTHER -> "Q4"
QLine(n, q) == <<QToken(n), ":", SP, q>>
OptionLine(tok) == <<tok, SP, OptionText(LabelOf(tok))>>
CorrectLine(c) == <<"Correct:", SP, c>>
Blank == <<>>
OptionLines == <<OptionLine("A)"), OptionLine("B)"), OptionLine("C)"), OptionLine("D)")>>

\* The shapes of a block: well formed, well formed with blank and indented
\* lines, without a "Correct:" line, without options.
BlockKinds == {"full", "spaced", "no_correct", "no_options"}
Blocks == [kind : BlockKinds, q : {"x", "y"}, c : {"A", "b"}]

BlockLines(b, n) ==
    CASE b.kind = "full" -> <<QLine(n, b.q)>> \o OptionLines \o <<CorrectLine(b.c)>>
      [] b.kind = "spaced" ->
           <<Blank, <<SP>> \o QLine(n, b.q) \o <<SP>>, Blank, OptionLines[1], <<SP>>,
             OptionLines[2], <<SP, SP>> \o OptionLines[3], OptionLines[4], Blank,
             CorrectLine(b.c) \o <<SP>>, Blank>>
      [] b.kind = "no_correct" -> <<QLine(n, b.q)>> \o OptionLines
      [] b.kind = "no_options" -> <<QLine(n, b.q), CorrectLine(b.c)>>

RECURSIVE ResponseLines(_, _)
ResponseLines(blocks, n) ==
    IF blocks = <<>> THEN <<>>
    ELSE BlockLines(Head(blocks), n) \o ResponseLines(Tail(blocks), n + 1)

InitParse ==
    /\ \E blocks \in SeqsUpTo(Blocks, MaxBlocks) :
         pq = [called |-> FALSE, blocks |-> blocks, lines |-> ResponseLines(blocks, 1)]
    /\ st = <<>> /\ pc = "idle" /\ trace = <<>> /\ events = <<>> /\ mode = "run"
    /\ input = <<>> /\ failed = {} /\ exc = "" /\ db = <<>> /\ call = NoCall
    /\ ev = NoEval /\ raw = NoLLM /\ procs = NoProcs /\ twin = NoTwin

CallParse ==
    /\ ~pq.called
    /\ pq' = [called |-> TRUE, blocks |-> pq.blocks, lines |-> pq.lines,
              questions |-> parse_quiz_response(pq.lines)]
    /\ UNCHANGED <<st, pc, trace, events, mode, input, failed, exc, db, call, ev, raw, procs, twin>>

NextParse == CallParse

SpecParse == InitParse /\ [][NextParse]_vars

---------------------------------------------------------------------------
(* The quiz of the command line: handle_quiz runs the graph, asks the
   questions it got back, and runs the graph again on the returned state *)
\* quiz_state of handle_quiz: no answers yet.
CliQuizStates ==
    {PutAll(Base(L, m, <<"Start quiz">>), [phase |-> "quiz", next_action |-> "quiz"]) :
        L \in Lessons, m \in Histories}

\* The answers the prompt accepts, one per question shown.
CliAnswers(questions) == [1..Len(questions) -> {"A", "B"}]

InitCli ==
    /\ input \in CliQuizStates
    /\ st = InputWrite(input)
    /\ pc = "greeting"
    /\ trace = <<>>
    /\ events = <<>>
    /\ mode = "run"
    /\ failed = {}
    /\ exc = ""
    /\ db \in GraphStores
    /\ call = [n |-> 1]
    /\ ev = NoEval /\ raw = NoLLM /\ procs = NoProcs /\ pq = NoParse /\ twin = NoTwin

\* The first run returned questions: the student answers them and the
\* returned state, with the answers set, is run again.
EnterAnswers ==
    /\ call.n = 1
    /\ pc = "END"
    /\ Get(st, "quiz_questions", <<>>) # <<>>
    /\ \E user_answers \in CliAnswers(st["quiz_questions"]) :
         LET result == Put(st, "quiz_answers", user_answers)
         IN  /\ input' = result
             /\ st' = InputWrite(result)
             /\ call' = [n |-> 2, questions |-> st["quiz_questions"],
                         user_answers |-> user_answers]
    /\ pc' = "greeting"
    /\ trace' = <<>>
    /\ failed' = {}
    /\ raw' = NoLLM
    /\ UNCHANGED <<events, mode, exc, db, ev, procs, pq, twin>>

NextCli == Next \/ EnterAnswers

SpecCli == InitCli /\ [][NextCli]_vars

---------------------------------------------------------------------------
(* The file of JSONDatabase: users, courses, and whether json.load can
   decode it (a file cut short by an interrupted write still holds the text
   of its records but does not decode) *)
File(users, courses, decodable) ==
    [users |-> users, courses |-> courses, decodable |-> decodable]

\* _read_data: the decoded file, or the empty database when the read fails.
read_data(file) ==
    IF file.decodable THEN [users |-> file.users, courses |-> file.courses]
    ELSE [users |-> <<>>, courses |-> <<>>]

\* _write_data: the file after json.dump(data).
write_data(data) == File(data.users, data.courses, TRUE)

\* JSONDatabase.save_user on the file.
JSONDatabase_save_user(file, user_id, user_data) ==
    LET data == read_data(file)
    IN  write_data([data EXCEPT !.users = Put(@, user_id, user_data)])

Course == [title |-> "English"]
FileUsers ==
    {<<>>} \cup {[u \in U |-> NewUser] : U \in (SUBSET ConcUsers) \ {{}}}
Files ==
    {File(users, courses, decodable) :
        users \in FileUsers,
        courses \in {<<>>, [c \in {"c1"} |-> Course]},
        decodable \in BOOLEAN}
SavedRecords == {NewUser, [NewUser EXCEPT !.current_lesson_id = 2]}

InitFile ==
    /\ db \in Files
    /\ call = [n |-> 0]
    /\ st = <<>> /\ pc = "idle" /\ trace = <<>> /\ events = <<>> /\ mode = "run"
    /\ input = <<>> /\ failed = {} /\ exc = "" /\ ev = NoEval
    /\ raw = NoLLM /\ procs = NoProcs /\ pq = NoParse /\ twin = NoTwin

CallSaveUser ==
    /\ call.n < MaxCalls
    /\ \E user_id \in ConcUsers, user_data \in SavedRecords :
         /\ db' = JSONDatabase_save_user(db, user_id, user_data)
         /\ call' = [n |-> call.n + 1, before |-> db, user_id |-> user_id,
                     user_data |-> user_data]
    /\ UNCHANGED <<st, pc, trace, events, mode, input, failed, exc, ev, raw, procs, pq, twin>>

NextFile == CallSaveUser

SpecFile == InitFile /\ [][NextFile]_vars

---------------------------------------------------------------------------
(* The websocket handlers: src/src/api/websocket.py.  Texts the handlers
   search are sequences of characters. *)
\* str.lower() on the characters the inputs use
Lower(c) ==
    CASE c = "O" -> "o"
      [] c = "K" -> "k"
      [] c = "Q" -> "q"
      [] c = "A" -> "a"
      [] c = "B" -> "b"
      [] OTHER -> c
LowerText(t) == [i \in DOMAIN t |-> Lower(t[i])]

\* p in t, for strings
In(p, t) == \E i \in 0..(Len(t) - Len(p)) : SubSeq(t, i + 1, i + Len(p)) = p

quiz_triggers ==
    {<<"q", "u", "i", "z">>,
     <<"t", "e", "s", "t", " ", "m", "e">>,
     <<"y", "e", "s">>,
     <<"s", "u", "r", "e">>,
     <<"o", "k">>,
     <<"o", "k", "a", "y">>,
     <<"l", "e", "t", "'", "s", " ", "d", "o", " ", "i", "t">>,
     <<"r", "e", "a", "d", "y">>}
QuizWord == <<"q", "u", "i", "z">>
TestYourKnowledge ==
    <<"t", "e", "s", "t", " ", "y", "o", "u", "r", " ",
      "k", "n", "o", "w", "l", "e", "d", "g", "e">>

\* The stored history in the form the graph takes: sender/text -> role/content.
formatted_history(history) ==
    [i \in DOMAIN history |->
        Msg(Get(history[i], "sender", "user"), Get(history[i], "text", <<>>))]

user_wants_quiz(user_input) == \E trigger \in quiz_triggers : In(trigger, LowerText(user_input))

\* The content, lowered, of the first assistant message from the end; the
\* empty text when there is none.
RECURSIVE last_assistant_msg(_)
last_assistant_msg(h) ==
    IF h = <<>> THEN <<>>
    ELSE IF Last(h).role = "assistant" THEN LowerText(Last(h).content)
    ELSE last_assistant_msg(SubSeq(h, 1, Len(h) - 1))

\* offering_quiz that looks at the last message, whoever sent it.
offering_quiz_LastOfAny(h) ==
    /\ h # <<>>
    /\ In(QuizWord, LowerText(Last(h).content))
       \/ In(TestYourKnowledge, LowerText(Last(h).content))

offering_quiz(h) ==
    /\ h # <<>>
    /\ last_assistant_msg(h) # <<>>
    /\ In(QuizWord, last_assistant_msg(h)) \/ In(TestYourKnowledge, last_assistant_msg(h))

\* The state handle_message hands to the graph.
message_state(user_id, lesson_id, user_input, history) ==
    [user_id |-> user_id, current_lesson_id |-> lesson_id, lesson_title |-> Title,
     messages |-> formatted_history(history), user_input |-> user_input,
     phase |-> "teaching",
     next_action |-> IF user_wants_quiz(user_input)
                        /\ offering_quiz(formatted_history(history))
                     THEN "quiz" ELSE "continue",
     source |-> "ui"]

\* The state handle_init hands to the graph.
init_state(user_id, lesson_id, history) ==
    [user_id |-> user_id, current_lesson_id |-> lesson_id, lesson_title |-> Title,
     messages |-> formatted_history(history), user_input |-> Sentinel]

WsFallbackGreeting ==
    <<"Hello! Welcome to ", Title, ". I'm excited to help you improve your English skills today!">>
Processing == <<"I'm processing your request...">>

get_conversation_history(d, user_id) ==
    Get(get_or_create_user(d, user_id)[user_id], "conversation_history", <<>>)

\* What the handler sends on the socket.
Sent(type, message) == [type |-> type, message |-> message]
SentGreeting(message) == [type |-> "response", message |-> message, is_greeting |-> TRUE]

\* The texts the stored messages and the chat inputs are made of.
OfferText == <<"Q", "u", "i", "z", "?">>
PlainText == <<"h", "i">>
StoredMessage(sender, text) == [sender |-> sender, text |-> text]
WsHistories ==
    {<<>>,
     <<StoredMessage("user", PlainText), StoredMessage("assistant", OfferText)>>,
     <<StoredMessage("assistant", OfferText), StoredMessage("user", <<"q", "u", "i", "z">>)>>,
     <<StoredMessage("assistant", OfferText), StoredMessage("assistant", PlainText),
       StoredMessage("user", <<"q", "u", "i", "z">>)>>}
WsInputs == {<<"O", "K">>, <<"b", "o", "o", "k">>, <<"n", "o">>, <<>>}

WsStores ==
    {<<>>} \cup
    {[u \in {User} |-> [NewUser EXCEPT !.conversation_history = h]] : h \in WsHistories}

\* The handler's own variables: which handler runs and where it stands, the
\* events of the stream it has taken, what it has sent, response_text or
\* greeting_sent, the assistant messages it has saved, the lesson of the
\* request, and whether all its own store writes succeeded.
Handler(name, stage, sent, lesson_id, ok) ==
    [handler |-> name, stage |-> stage, seen |-> 0, sent |-> sent,
     response_text |-> <<>>, greeting_sent |-> FALSE, saves |-> 0,
     lesson_id |-> lesson_id, ok |-> ok]

InitWs ==
    /\ db \in WsStores
    /\ call = Handler("none", "idle", <<>>, 1, TRUE)
    /\ st = <<>> /\ input = <<>>
    /\ pc = "idle"
    /\ trace = <<>>
    /\ events = <<>>
    /\ mode = "astream"
    /\ failed = {}
    /\ exc = ""
    /\ ev = NoEval /\ raw = NoLLM /\ procs = NoProcs /\ pq = NoParse /\ twin = NoTwin

WsFrame == UNCHANGED <<trace, events, mode, failed, ev, raw, procs, pq, twin>>

\* handle_init up to the start of the stream.
HandleInit ==
    /\ call.stage = "idle"
    /\ LET d1 == get_or_create_user(db, User)
           lesson_id == d1[User].current_lesson_id
           state == init_state(User, lesson_id, get_conversation_history(d1, User))
       IN  /\ db' = d1
           /\ input' = state
           /\ st' = InputWrite(state)
           /\ call' = Handler("handle_init", "streaming",
                              <<Sent("user_created", <<>>), Sent("thinking", <<>>)>>,
                              lesson_id, TRUE)
    /\ pc' = "greeting"
    /\ UNCHANGED exc
    /\ WsFrame

\* handle_message up to the start of the stream: the state is built from
\* the history as stored before the user's message is saved.
HandleMessage ==
    /\ call.stage = "idle"
    /\ \E user_input \in WsInputs, lesson_id \in Lessons, ok \in StoreOutcomes :
         LET state == message_state(User, lesson_id, user_input,
                                    get_conversation_history(db, User))
         IN  /\ input' = state
             /\ IF ok
                THEN /\ db' = save_message(db, User, "user", user_input)
                     /\ st' = InputWrite(state)
                     /\ pc' = "greeting"
                     /\ call' = Handler("handle_message", "streaming",
                                        <<Sent("thinking", <<>>)>>, lesson_id, TRUE)
                ELSE /\ db' = db
                     /\ st' = <<>>
                     /\ pc' = "idle"
                     /\ call' = Handler("handle_message", "except",
                                        <<Sent("thinking", <<>>)>>, lesson_id, FALSE)
    /\ UNCHANGED exc
    /\ WsFrame

\* The graph runs its next node once the handler has taken the last event.
Stream ==
    /\ call.stage = "streaming"
    /\ call.seen = Len(events)
    /\ Next

\* The body of handle_init's loop for one event.
InitEvent ==
    /\ call.handler = "handle_init" /\ call.stage = "streaming"
    /\ call.seen < Len(events)
    /\ LET e == events[call.seen + 1]
           taken == [call EXCEPT !.seen = @ + 1]
       IN  IF ~call.greeting_sent /\ e.node = "greeting" /\ Has(e.output, "teacher_response")
           THEN \E ok \in StoreOutcomes :
                  LET greeting_text == e.output["teacher_response"]
                      sent == Append(call.sent, SentGreeting(greeting_text))
                  IN  IF ok
                      THEN /\ db' = save_message(db, User, "assistant", greeting_text)
                           /\ call' = [taken EXCEPT !.sent = sent, !.saves = @ + 1,
                                                    !.greeting_sent = TRUE]
                      ELSE /\ db' = db
                           /\ call' = [taken EXCEPT !.sent = sent, !.stage = "except",
                                                    !.ok = FALSE]
           ELSE /\ call' = taken
                /\ db' = db
    /\ UNCHANGED <<st, pc, input, exc>>
    /\ WsFrame

\* The body of handle_message's loop for one event.
MessageEvent ==
    /\ call.handler = "handle_message" /\ call.stage = "streaming"
    /\ call.seen < Len(events)
    /\ LET e == events[call.seen + 1]
           taken == [call EXCEPT !.seen = @ + 1]
       IN  call' = IF Has(e.output, "teacher_response")
                   THEN [taken EXCEPT
                           !.response_text = e.output["teacher_response"],
                           !.sent = Append(@, Sent("response", e.output["teacher_response"]))]
                   ELSE taken
    /\ UNCHANGED <<st, pc, input, exc, db>>
    /\ WsFrame

\* The stream ended or raised.
StreamEnds ==
    /\ call.stage = "streaming"
    /\ call.seen = Len(events)
    /\ pc \in {"END", "raised"}
    /\ call' = [call EXCEPT !.stage = IF pc = "raised" THEN "except"
                                      ELSE IF call.handler = "handle_init" THEN "done"
                                      ELSE "after"]
    /\ UNCHANGED <<st, pc, input, exc, db>>
    /\ WsFrame

\* handle_message after the loop: the fallback text, the assistant message,
\* the lesson update.
MessageAfter ==
    /\ call.handler = "handle_message" /\ call.stage = "after"
    /\ \E ok \in StoreOutcomes :
         LET response_text == IF call.response_text = <<>> THEN Processing
                              ELSE call.response_text
             sent1 == IF call.response_text = <<>>
                      THEN Append(call.sent, Sent("response", response_text))
                      ELSE call.sent
             d1 == save_message(db, User, "assistant", response_text)
             new_lesson_id == get_current_lesson_id(d1, User)
         IN  IF ok
             THEN /\ db' = d1
                  /\ call' = [call EXCEPT
                                !.stage = "done", !.saves = @ + 1,
                                !.response_text = response_text,
                                !.sent = IF new_lesson_id # call.lesson_id
                                         THEN Append(sent1, Sent("lesson_update", <<>>))
                                         ELSE sent1]
             ELSE /\ db' = db
                  /\ call' = [call EXCEPT !.stage = "except", !.ok = FALSE, !.sent = sent1]
    /\ UNCHANGED <<st, pc, input, exc>>
    /\ WsFrame

\* The except branch of handle_message.
MessageExcept ==
    /\ call.handler = "handle_message" /\ call.stage = "except"
    /\ call' = [call EXCEPT !.stage = "done", !.sent = Append(@, Sent("error", <<>>))]
    /\ UNCHANGED <<st, pc, input, exc, db>>
    /\ WsFrame

\* The except branch of handle_init: the fallback greeting is sent and saved;
\* a failure of that save leaves the handler.
InitExcept ==
    /\ call.handler = "handle_init" /\ call.stage = "except"
    /\ \E ok \in StoreOutcomes :
         /\ call' = [call EXCEPT
                       !.stage = "done",
                       !.sent = Append(@, SentGreeting(WsFallbackGreeting)),
                       !.saves = IF ok THEN @ + 1 ELSE @,
                       !.ok = @ /\ ok]
         /\ db' = IF ok THEN save_message(db, User, "assistant", WsFallbackGreeting) ELSE db
         /\ exc' = IF ok THEN exc ELSE "store"
    /\ UNCHANGED <<st, pc, input>>
    /\ WsFrame

NextWs ==
    \/ HandleInit
    \/ HandleMessage
    \/ Stream
    \/ InitEvent
    \/ MessageEvent
    \/ StreamEnds
    \/ MessageAfter
    \/ MessageExcept
    \/ InitExcept

SpecWs == InitWs /\ [][NextWs]_vars

---------------------------------------------------------------------------
(* Login: src/src/api/routes.py, src/src/database/progress.py *)
Phones == {"1", "2"}
Names == {<<"A", "n">>, <<"a", "n">>, <<"B", "o">>}
\* f"user_{phone_number}"
UserIdOf(phone_number) == IF phone_number = "1" THEN "user_1" ELSE "user_2"

Registered(user_id, name, phone_number) ==
    [user_id |-> user_id, name |-> name, phone_number |-> phone_number,
     selected_mode |-> "None", current_lesson_id |-> 1, completed_lessons |-> <<>>,
     lesson_scores |-> <<>>, conversation_history |-> <<>>]

\* db.get_user: the record, or None (here the empty record).
get_user(d, user_id) == IF user_id \in DOMAIN d THEN d[user_id] ELSE <<>>

\* The store after the call and the record it returns.
register_user(d, user_id, name, phone_number) ==
    LET existing_user == get_user(d, user_id)
        user_data == Registered(user_id, name, phone_number)
    IN  IF existing_user # <<>>
        THEN [db |-> d, user |-> existing_user]
        ELSE [db |-> save_user(d, user_id, user_data), user |-> user_data]

\* The store after the call and the record it returns, empty for None.
authenticate_user(d, name, phone_number) ==
    LET user_id == UserIdOf(phone_number)
        user_data == get_user(d, user_id)
    IN  IF user_data = <<>> THEN [db |-> d, user |-> <<>>]
        ELSE IF LowerText(Get(user_data, "name", <<>>)) # LowerText(name)
        THEN [db |-> d, user |-> <<>>]
        ELSE [db |-> save_user(d, user_id, user_data), user |-> user_data]

AuthResponse(user_data, message) ==
    [user_id |-> user_data["user_id"], name |-> user_data["name"],
     phone_number |-> user_data["phone_number"],
     selected_mode |-> user_data["selected_mode"], message |-> message]

\* The store after POST /auth/login and the response.
login(d, name, phone_number) ==
    LET a == authenticate_user(d, name, phone_number)
        r == IF a.user = <<>>
             THEN register_user(a.db, UserIdOf(phone_number), name, phone_number)
             ELSE a
    IN  [db |-> r.db, response |-> AuthResponse(r.user, "Login successful")]

LoginStores ==
    UNION {[{UserIdOf(p) : p \in P} -> Names] : P \in SUBSET Phones}
StoreOf(names) ==
    [u \in DOMAIN names |->
        Registered(u, names[u], IF u = "user_1" THEN "1" ELSE "2")]

InitLogin ==
    /\ \E names \in LoginStores : db = StoreOf(names)
    /\ call = [n |-> 0]
    /\ st = <<>> /\ pc = "idle" /\ trace = <<>> /\ events = <<>> /\ mode = "run"
    /\ input = <<>> /\ failed = {} /\ exc = "" /\ ev = NoEval
    /\ raw = NoLLM /\ procs = NoProcs /\ pq = NoParse /\ twin = NoTwin

CallLogin ==
    /\ call.n < MaxCalls
    /\ \E name \in Names, phone_number \in Phones :
         LET r == login(db, name, phone_number)
         IN  /\ db' = r.db
             /\ call' = [n |-> call.n + 1, before |-> db, name |-> name,
                         phone_number |-> phone_number, response |-> r.response]
    /\ UNCHANGED <<st, pc, trace, events, mode, input, failed, exc, ev, raw, procs, pq, twin>>

NextLogin == CallLogin

SpecLogin == InitLogin /\ [][NextLogin]_vars

---------------------------------------------------------------------------
(* One turn run twice on inputs that differ in the source tag only, the
   collaborators answering both runs alike *)
\* The tags a caller may set (state.py 47); an index past them is no tag.
\* The runs compared carry neighbouring tags: ui and voice, voice and cli,
\* cli and none.
SourceTags == <<"ui", "voice", "cli">>
Drop(s, k) == [x \in (DOMAIN s) \ {k} |-> s[x]]
Tagged(s, i) == IF i \in DOMAIN SourceTags THEN Put(s, "source", SourceTags[i])
                ELSE Drop(s, "source")

\* The answers the collaborator of a node can give.
OutcomesOf(node) ==
    CASE node = "greeting" -> GreetingOutcomes
      [] node = "retrieve_content" -> RetrievalOutcomes
      [] node = "generate_response" -> ResponseOutcomes
      [] node = "generate_quiz" -> QuizOutcomes
      [] node = "update_progress" -> {[ok |-> b] : b \in StoreOutcomes}
      [] OTHER -> {[ok |-> TRUE]}

\* The node `node` on the channels s and the store d when its collaborator
\* answers o: the dict it returns, the node its edge leads to, the store after.
NodeStep(node, s, d, o) ==
    CASE node = "greeting" ->
           LET ret == greeting_node(s, o)
           IN  [ret |-> ret, db |-> d,
                to |-> Branch(greeting_edges, route_after_greeting(ChannelWrite(ret)))]
      [] node = "retrieve_content" ->
           [ret |-> retrieve_content_node(s, o), db |-> d, to |-> edge["retrieve_content"]]
      [] node = "generate_response" ->
           LET ret == generate_response_node(s, o)
           IN  [ret |-> ret, db |-> d,
                to |-> Branch(response_edges, route_after_response(ChannelWrite(ret)))]
      [] node = "generate_quiz" ->
           [ret |-> generate_quiz_node(s, o), db |-> d, to |-> edge["generate_quiz"]]
      [] node = "evaluate_quiz" ->
           [ret |-> evaluate_quiz_node(s), db |-> d, to |-> edge["evaluate_quiz"]]
      [] node = "update_progress" ->
           LET r == update_progress_node(s, d, o.ok)
           IN  [ret |-> r.ret, db |-> r.db,
                to |-> Branch(progress_edges, route_after_progress(ChannelWrite(r.ret)))]

\* One run: its channels, position, executed nodes, store and exception.
RunOf(s, p, t, d, e) == [st |-> s, pc |-> p, trace |-> t, db |-> d, exc |-> e]

\* The run r after the node it stands at ran with the answer o.
Advance(r, o) ==
    LET n == NodeStep(r.pc, r.st, r.db, o)
    IN  IF n.to = "raised"
        THEN RunOf(r.st, "raised", Append(r.trace, r.pc), n.db, "KeyError")
        ELSE RunOf(ChannelWrite(n.ret), n.to, Append(r.trace, r.pc), n.db, r.exc)

\* The states the callers build, before they set or leave out the tag.
SourceInputs == InitStates \cup MessageStates \cup QuizStates

InitSource ==
    /\ input \in SourceInputs
    /\ db \in GraphStores
    /\ \E i \in DOMAIN SourceTags : \E j \in {i + 1} :
         /\ st = InputWrite(Tagged(input, i))
         /\ twin = RunOf(InputWrite(Tagged(input, j)), "greeting", <<>>, db, "")
    /\ pc = "greeting"
    /\ trace = <<>>
    /\ events = <<>>
    /\ mode = "run"
    /\ failed = {}
    /\ exc = ""
    /\ call = NoCall /\ ev = NoEval /\ raw = NoLLM /\ procs = NoProcs /\ pq = NoParse

\* Both runs execute the node the first one stands at, with the same answer;
\* a twin that stands elsewhere stays where it is.
TurnPair ==
    /\ pc \notin {"END", "raised"}
    /\ \E o \in OutcomesOf(pc) :
         LET r == Advance(RunOf(st, pc, trace, db, exc), o)
         IN  /\ st' = r.st /\ pc' = r.pc /\ trace' = r.trace /\ db' = r.db /\ exc' = r.exc
             /\ twin' = IF twin.pc = pc THEN Advance(twin, o) ELSE twin
    /\ UNCHANGED <<events, mode, input, failed, call, ev, raw, procs, pq>>

NextSource == TurnPair

SpecSource == InitSource /\ [][NextSource]_vars

---------------------------------------------------------------------------
(* Properties *)
Nodes ==
    {"greeting", "retrieve_content", "generate_response",
     "generate_quiz", "evaluate_quiz", "update_progress"}
Ended == pc \in {"END", "raised"}
Ran(node) == \E i \in 1..Len(trace) : trace[i] = node
Times(node) == Cardinality({i \in 1..Len(trace) : trace[i] = node})
LastRan(node) == trace # <<>> /\ Last(trace) = node

\* C1: every turn, blocking or streaming, ends in a terminal state with a
\* returned state after running each node at most once (at most 6 node
\* executions), whatever the collaborators do; no exception reaches the caller.
C1_TurnEndsWithoutException ==
    /\ exc = ""
    /\ pc # "raised"
    /\ Len(trace) <= 6
    /\ \A n \in Nodes : Times(n) <= 1
    /\ (~Ended => pc \in Nodes)

\* C2: when user_input is empty or the greeting sentinel, the turn ends
\* right after the greeting node: retrieve_content and the later nodes do not run.
C2_GreetingEndsTurn ==
    IsGreetingRequest(input) =>
        /\ \A i \in 1..Len(trace) : trace[i] = "greeting"
        /\ (LastRan("greeting") => pc = "END")

\* C3: once generate_quiz has run, evaluate_quiz and then update_progress run
\* exactly once each after it, in that order, in the same turn, also when quiz
\* generation or evaluation failed.
C3_QuizChainIsLinear ==
    \A i \in 1..Len(trace) :
        trace[i] = "generate_quiz" =>
            /\ Times("generate_quiz") = 1
            /\ \E k \in 0..2 :
                 /\ SubSeq(trace, i + 1, Len(trace))
                      = SubSeq(<<"evaluate_quiz", "update_progress">>, 1, k)
                 /\ (k < 2 => pc = <<"evaluate_quiz", "update_progress">>[k + 1])
                 /\ (k = 2 => Ended)

C3_Witness ==
    /\ pc = "END"
    /\ "generate_quiz" \in failed
    /\ trace = <<"greeting", "retrieve_content", "generate_response",
                 "generate_quiz", "evaluate_quiz", "update_progress">>

\* C4: after update_progress the turn ends at END for every value next_action
\* holds then, whether or not update_progress assigned it.
C4_ProgressAlwaysEnds == LastRan("update_progress") => pc = "END"

Rank(p) ==
    CASE p = "teaching" -> 0
      [] p = "quiz" -> 1
      [] p = "evaluation" -> 2
      [] p = "completed" -> 3
      [] OTHER -> 0 - 1

PhaseOf(s) == Get(s, "phase", "")

\* C5 as claimed: within one run phase only moves forward along
\* teaching -> quiz -> evaluation -> completed, and from quiz it moves on
\* only to evaluation.
C5_PhaseOnlyForward ==
    [][/\ Rank(PhaseOf(st')) >= Rank(PhaseOf(st))
       /\ (PhaseOf(st) = "quiz" => PhaseOf(st') \in {"quiz", "evaluation"})]_vars

\* C5 amended: within one run phase is changed only by generate_quiz (to quiz,
\* whatever phase the input state came with), by a scoring evaluate_quiz (from
\* quiz to evaluation) and by update_progress, which moves it from evaluation
\* to completed when the quiz was passed and sets it back to teaching when the
\* quiz was not passed; completed is never reached without evaluation.
C5_PhaseSteps ==
    [][PhaseOf(st') # PhaseOf(st) =>
         \/ pc = "generate_quiz" /\ PhaseOf(st') = "quiz"
         \/ pc = "evaluate_quiz" /\ PhaseOf(st) = "quiz" /\ PhaseOf(st') = "evaluation"
         \/ /\ pc = "update_progress"
            /\ PhaseOf(st) = "evaluation"
            /\ PhaseOf(st') = "completed"
            /\ Get(st, "quiz_passed", FALSE)
         \/ /\ pc = "update_progress"
            /\ PhaseOf(st') = "teaching"
            /\ ~Get(st, "quiz_passed", FALSE)]_vars

C5_Witness ==
    /\ pc = "END"
    /\ LastRan("update_progress")
    /\ PhaseOf(input) = "teaching"
    /\ PhaseOf(st) = "teaching"
    /\ Has(st, "quiz_score") /\ st["quiz_score"] = Frac(1, 2)
    /\ failed = {}

\* Positions answered correctly, counted label by label without upper().
SameLabel(x, y) ==
    \/ x \in {"a", "A"} /\ y \in {"a", "A"}
    \/ x \in {"b", "B"} /\ y \in {"b", "B"}

RECURSIVE Matches(_, _, _)
Matches(questions, answers, n) ==
    IF n = 0 THEN 0
    ELSE Matches(questions, answers, n - 1)
         + (IF SameLabel(answers[n], questions[n].correct_answer) THEN 1 ELSE 0)

\* C6: for questions and answers of equal length evaluate_quiz returns a score
\* in [0,1] equal to (answers matching the correct label, ignoring case) /
\* len(questions), and passed is true exactly when score >= 0.70.
C6_ScoreIsFractionCorrect ==
    (ev.called /\ Len(ev.questions) = Len(ev.user_answers)) =>
        LET n == Len(ev.questions)
            m == Matches(ev.questions, ev.user_answers, n)
            r == ev.results
        IN  /\ r.raised = ""
            /\ r.score[1] * n = m * r.score[2]
            /\ 0 <= r.score[1] /\ r.score[1] <= r.score[2]
            /\ r.passed = (PassingDen * m >= PassingNum * n)

\* C7: for questions and answers of unequal length evaluation yields an
\* explicit error and no score, in evaluate_quiz and in the evaluate_quiz node:
\* the node leaves quiz_score and quiz_passed as they were.
C7_MismatchGivesNoScore ==
    [][(/\ pc = "evaluate_quiz"
        /\ Get(st, "quiz_answers", <<>>) # <<>>
        /\ Len(st["quiz_answers"]) # Len(st["quiz_questions"])) =>
         /\ evaluate_quiz(st["quiz_questions"], st["quiz_answers"]).raised = "ValueError"
         /\ Has(st', "error")
         /\ Opt(st', "quiz_score") = Opt(st, "quiz_score")
         /\ Opt(st', "quiz_passed") = Opt(st, "quiz_passed")]_vars

\* C8: when quiz_answers is absent or empty, the evaluate_quiz node sets error
\* and returns without scoring: quiz_score, quiz_passed and phase stay as they
\* were on entry.
C8_NoAnswersNoScoring ==
    [][(pc = "evaluate_quiz" /\ Get(st, "quiz_answers", <<>>) = <<>>) =>
         /\ Opt(st', "error") = {"No quiz answers provided"}
         /\ Opt(st', "quiz_score") = Opt(st, "quiz_score")
         /\ Opt(st', "quiz_passed") = Opt(st, "quiz_passed")
         /\ Opt(st', "phase") = Opt(st, "phase")]_vars

C8_Witness ==
    /\ LastRan("evaluate_quiz")
    /\ Get(st, "quiz_answers", <<>>) = <<>>
    /\ Get(st, "quiz_questions", <<>>) # <<>>
    /\ PhaseOf(st) = "quiz"
    /\ ~Has(st, "quiz_score")
    /\ Opt(st, "error") = {"No quiz answers provided"}

\* C9: when the store calls succeed, update_progress sets (next_action, phase)
\* to (next_lesson, completed) if quiz_passed and the store's current lesson
\* read after the write is greater than the state's current_lesson_id, to
\* (continue, completed) if quiz_passed and it is not greater, and to
\* (retry, teaching) if not quiz_passed.
C9_ProgressOutcome ==
    (LastRan("update_progress") /\ "update_progress" \notin failed) =>
        LET stored == db[User].current_lesson_id
            outcome == <<Get(st, "next_action", ""), PhaseOf(st)>>
        IN  IF Get(st, "quiz_passed", FALSE)
            THEN IF stored > st["current_lesson_id"]
                 THEN outcome = <<"next_lesson", "completed">>
                 ELSE outcome = <<"continue", "completed">>
            ELSE outcome = <<"retry", "teaching">>

C9_Witness ==
    /\ LastRan("update_progress")
    /\ "update_progress" \notin failed
    /\ Get(st, "quiz_passed", FALSE)
    /\ db[User].current_lesson_id = st["current_lesson_id"]
    /\ Get(st, "next_action", "") = "continue"
    /\ PhaseOf(st) = "completed"

\* C10: after update_progress(user, L, score, passed = true) with L not yet in
\* the user's completed_lessons, the store holds current_lesson_id = L + 1,
\* L in completed_lessons and lesson_scores[L] = score, whatever it held before.
C10_PassAdvances ==
    LET done == IF User \in DOMAIN call.before
                THEN Range(call.before[User].completed_lessons) ELSE {}
    IN  (call.n > 0 /\ call.passed /\ call.lesson_id \notin done) =>
            /\ db[User].current_lesson_id = call.lesson_id + 1
            /\ call.lesson_id \in Range(db[User].completed_lessons)
            /\ Opt(db[User].lesson_scores, ToString(call.lesson_id)) = {call.score}

C10_Witness ==
    /\ call.n > 0
    /\ call.passed
    /\ User \in DOMAIN call.before
    /\ call.before[User].current_lesson_id > call.lesson_id
    /\ call.before[User].completed_lessons # <<>>
    /\ call.lesson_id \notin Range(call.before[User].completed_lessons)
    /\ db[User].current_lesson_id = call.lesson_id + 1

\* C11: when two store-writing operations have both returned, the file holds
\* what running the two operations one after the other, in one of the two
\* orders, leaves in it: no update is lost.
AllDone == \A t \in Threads : procs.thread[t].pc = "done"
SerialResults ==
    LET o1 == procs.thread[1].o
        o2 == procs.thread[2].o
    IN  {Apply(o2, Apply(o1, procs.store0)), Apply(o1, Apply(o2, procs.store0))}
C11_NoLostUpdate == AllDone => db \in SerialResults
\* A thread that runs alone from start to end leaves the serial result.
AloneIsSerial ==
    \A t \in Threads :
        (procs.thread[t].pc = "done" /\ procs.thread[3 - t].pc \in {"get_user", "save_read"}
            /\ procs.thread[3 - t].data = <<>>
            /\ procs.thread[3 - t] = Thread(procs.thread[3 - t].o))
        => db = Apply(procs.thread[t].o, procs.store0)

\* C12 (as stated): generate_quiz runs in a turn only if the raw LLM output of
\* that turn's generate_response contained the marker.
MarkerEmitted == raw.called /\ raw.ok /\ Contains(raw.text)
C12_MarkerIsSoleTrigger == Ran("generate_quiz") => MarkerEmitted
\* C12 (amended): generate_quiz runs in a turn only if the raw LLM output of
\* that turn contained the marker or the caller started the turn with
\* next_action = quiz.
CallerAskedQuiz == Get(input, "next_action", "continue") = "quiz"
C12_QuizTriggers == Ran("generate_quiz") => (MarkerEmitted \/ CallerAskedQuiz)
C12_Witness == Ran("generate_quiz") /\ raw.called /\ ~raw.ok /\ CallerAskedQuiz

\* C13: a turn with a non-greeting input, initial next_action = continue and
\* an LLM output without the marker ends right after generate_response: phase
\* is unchanged, teacher_response is set, messages is longer by exactly 2 and
\* generate_quiz, evaluate_quiz and update_progress did not run.
PlainTurn ==
    /\ ~IsGreetingRequest(input)
    /\ Get(input, "next_action", "continue") = "continue"
    /\ raw.called /\ raw.ok /\ ~Contains(raw.text)
PlainTurnFrame ==
    /\ pc = "END"
    /\ LastRan("generate_response")
    /\ Opt(st, "phase") = Opt(input, "phase")
    /\ Has(st, "teacher_response")
    /\ ~Ran("generate_quiz") /\ ~Ran("evaluate_quiz") /\ ~Ran("update_progress")
C13_PlainTeachingTurn ==
    (PlainTurn /\ Ended) =>
        (PlainTurnFrame /\ Len(st["messages"]) = Len(input["messages"]) + 2)

\* C14: every turn that ends returns a state in which teacher_response is set:
\* the greeting (LLM text or fallback template) on a greeting turn, the LLM
\* reply or the apology string on any other turn.
GreetingTexts == {o.text : o \in {g \in GreetingOutcomes : g.ok}} \cup {FallbackGreeting}
ReplyText ==
    IF ~raw.called THEN {}
    ELSE IF ~raw.ok THEN {Apology}
    ELSE IF Contains(raw.text) THEN {Strip(Replace(raw.text))}
    ELSE {raw.text}
C14_TeacherResponseSet ==
    Ended =>
        /\ pc = "END"
        /\ Has(st, "teacher_response")
        /\ IF IsGreetingRequest(input)
           THEN st["teacher_response"] \in GreetingTexts
           ELSE st["teacher_response"] \in ReplyText

\* C15: whenever a collaborator call failed inside a node during the turn,
\* the state the turn returns has error set.
C15_FailureSetsError == (pc = "END" /\ failed # {}) => Has(st, "error")

WellFormed(b) == b.kind \in {"full", "spaced"}
Expected(b) ==
    ParsedQuestion(<<b.q>>,
                   [i \in 1..4 |-> [label |-> LabelOf(OptionLines[i][1]),
                                    text |-> <<OptionLines[i][3]>>]],
                   <<b.c>>)
C17_ParsesWellFormed ==
    (pq.called /\ \A i \in DOMAIN pq.blocks : WellFormed(pq.blocks[i]))
        => pq.questions = [i \in DOMAIN pq.blocks |-> Expected(pq.blocks[i])]
C17_Witness ==
    /\ pq.called /\ Len(pq.blocks) >= 2
    /\ \A i \in DOMAIN pq.blocks : WellFormed(pq.blocks[i])
    /\ pq.blocks[1].kind = "spaced" /\ pq.blocks[1].c # pq.blocks[2].c
    /\ Len(pq.questions) = Len(pq.blocks)

\* C18: a block without a "Correct:" line or without options is left out of
\* the result and never appears with a defaulted or empty correct answer;
\* the well-formed blocks around it are returned.
C18_MalformedDropped ==
    pq.called =>
        /\ pq.questions =
             [i \in DOMAIN SelectSeq(pq.blocks, WellFormed) |->
                 Expected(SelectSeq(pq.blocks, WellFormed)[i])]
        /\ \A i \in DOMAIN pq.questions : pq.questions[i].correct_answer # NoneText

\* C19: in streaming mode a turn yields exactly one event per executed node,
\* in execution order, and ends, as the blocking mode does for the same
\* input, with a returned state: the one the channels hold after the last
\* event.
EventNodes == [i \in DOMAIN events |-> events[i].node]
C19_StreamMatchesRun == (mode = "astream" /\ Ended) => (EventNodes = trace /\ pc = "END")

\* C20: in streaming mode only the events of greeting and generate_response
\* carry teacher_response; the events of retrieve_content, generate_quiz,
\* evaluate_quiz and update_progress do not.
C20_OnlyTwoNodesCarryText ==
    \A i \in DOMAIN events :
        events[i].node \notin {"greeting", "generate_response"}
            => ~Has(events[i].output, "teacher_response")

\* C21: within a run messages is append-only: every node leaves the existing
\* entries as a prefix, and only generate_response extends it, by exactly the
\* pair (user: user_input, assistant: response) when the LLM call succeeded
\* and by nothing when it failed.
Plain(q) == [i \in DOMAIN q |-> Msg(q[i].role, q[i].content)]
IsPrefix(p, q) == Len(p) <= Len(q) /\ SubSeq(q, 1, Len(p)) = p
Appended == SubSeq(Plain(st["messages"])', Len(st["messages"]) + 1, Len(st["messages"]'))
C21_MessagesAppendOnly ==
    [][/\ IsPrefix(st["messages"], st["messages"]')
       /\ (pc # "generate_response" => Appended = <<>>)
       /\ (pc = "generate_response" /\ pc' # "raised") =>
            Appended = IF raw'.ok
                       THEN <<Msg("user", st["user_input"]),
                              Msg("assistant", st["teacher_response"]')>>
                       ELSE <<>>]_vars

\* C22 (as stated): quiz_score and quiz_passed are assigned by no node other
\* than an evaluate_quiz that scored, and stay as they were otherwise.
QuizFields(s) == <<Opt(s, "quiz_score"), Opt(s, "quiz_passed")>>
Scored(s) ==
    /\ Get(s, "quiz_answers", <<>>) # <<>>
    /\ evaluate_quiz(s["quiz_questions"], s["quiz_answers"]).raised = ""
C23_RetrieveBeforeGenerate ==
    /\ (Ran("generate_response") \/ pc = "generate_response") =>
            \E i \in 1..Len(trace) :
                /\ trace[i] = "retrieve_content"
                /\ \A j \in 1..Len(trace) : trace[j] = "generate_response" => i < j
    /\ Times("retrieve_content") <= 1
    /\ (~IsGreetingRequest(input) /\ Ended) => Times("retrieve_content") = 1
C23_Witness ==
    /\ ~IsGreetingRequest(input) /\ Ended /\ "retrieve_content" \in failed
    /\ Ran("generate_response")

\* C24: after generate_response completed with a successful LLM call, neither
\* teacher_response nor the assistant entry appended to messages contains the
\* marker, whatever the raw output, and next_action is quiz whenever the raw
\* output contained the marker.
C24_MarkerStripped ==
    (LastRan("generate_response") /\ raw.ok) =>
        /\ ~Contains(st["teacher_response"])
        /\ ~Contains(Last(st["messages"]).content)
        /\ (Contains(raw.text) => Get(st, "next_action", "continue") = "quiz")

\* C25: a turn that runs concurrently with a turn of another user ends with
\* the returned state it ends with when it runs alone.
AloneResult(t) == update_progress_node(procs.thread[t].o.s, procs.store0, TRUE).ret
C25_TurnsAreIndependent ==
    \A t \in Threads :
        procs.thread[t].pc = "done" => procs.thread[t].result = AloneResult(t)
\* A turn whose steps all come before the other turn's first step ends as alone.
FirstTurnAsAlone ==
    \A t \in Threads :
        (procs.thread[t].pc = "done" /\ procs.thread[3 - t] = Thread(procs.thread[3 - t].o))
            => procs.thread[t].result = AloneResult(t)


\* C26: two turns whose inputs differ only in the source tag (ui, voice, cli
\* or none), with the collaborators answering alike, execute the same nodes
\* in the same order and hold the same next_action, phase, quiz fields and
\* store at every step and at the end.
SourceBlind == {"next_action", "phase", "quiz_questions", "quiz_answers",
                "quiz_score", "quiz_passed"}
C26_SourceIsIgnored ==
    twin.pc # "none" =>
        /\ twin.trace = trace
        /\ twin.pc = pc
        /\ twin.exc = exc
        /\ twin.db = db
        /\ \A k \in SourceBlind : Opt(twin.st, k) = Opt(st, k)

\* Two turns tagged voice and cli ran the whole quiz chain and the store
\* recorded the attempt.
C26_Witness ==
    /\ twin.pc = "END" /\ pc = "END"
    /\ Get(st, "source", "") = "voice" /\ Get(twin.st, "source", "") = "cli"
    /\ Ran("update_progress")
    /\ db # twin.st /\ User \in DOMAIN db
    /\ Has(st, "quiz_score")


MessagesNeverShrink ==
    [][IsPrefix(Plain(Get(st, "messages", <<>>)), Plain(Get(st', "messages", <<>>)))]_vars


\* C28: at the end of a turn in which no node failed (no collaborator call
\* raised and evaluate_quiz was not reached), `error` is absent, also when
\* the caller handed in the state an earlier turn returned.
NoNodeFailed == failed = {} /\ ~Ran("evaluate_quiz")
C28_ErrorOnlyAfterFailure ==
    (pc = "END" /\ NoNodeFailed) => ~Has(st, "error")

\* An error at the end of a turn without a failure is the one the caller
\* handed in.
ErrorIsCarriedOver ==
    (pc = "END" /\ NoNodeFailed /\ Has(st, "error")) => Opt(st, "error") = Opt(input, "error")


\* C29: when the greeting node ran on a greeting request of a student with
\* earlier messages, teacher_response is non-empty and is not the greeting a
\* new student (no messages) of the same lesson gets; stated here for the
\* outcome in which the LLM call failed, where both texts are fixed by the
\* code.
NewStudentGreeting(llm) ==
    greeting_node(Base(1, <<>>, Sentinel), llm)["teacher_response"]
C29_ReturningGreetingDiffers ==
    (/\ trace = <<"greeting">>
     /\ IsGreetingRequest(input)
     /\ Get(input, "messages", <<>>) # <<>>
     /\ "greeting" \in failed)
    => /\ Get(st, "teacher_response", <<>>) # <<>>
       /\ st["teacher_response"] # NewStudentGreeting(LLMFail)


\* C30: in the quiz of the command line, the second run of the graph scores
\* the answers the student entered against the questions that were shown:
\* when it ends without a failed call, quiz_score is the fraction of the
\* answers that match and quiz_passed is true exactly when that fraction is
\* at least 0.70.
C30_CliScoresEnteredAnswers ==
    (call.n = 2 /\ pc = "END" /\ failed = {}) =>
        LET n == Len(call.questions)
            m == Matches(call.questions, call.user_answers, n)
        IN  /\ Has(st, "quiz_score") /\ Has(st, "quiz_passed")
            /\ st["quiz_score"][1] * n = m * st["quiz_score"][2]
            /\ st["quiz_passed"] = (PassingDen * m >= PassingNum * n)

\* The second run reaches evaluate_quiz only when the LLM asked for a quiz
\* again, and then on questions generated anew.
SecondRunEvaluatesOnlyOnMarker ==
    (call.n = 2 /\ Ran("evaluate_quiz")) => (raw.called /\ raw.ok /\ Contains(raw.text))


\* C31: a turn in which evaluate_quiz computed no score because quiz_answers
\* was absent leaves the user's progress as it was: lesson_scores,
\* completed_lessons and current_lesson_id are the same after the
\* update_progress node as before it.
UserProgress(d) ==
    LET user == get_or_create_user(d, User)[User]
    IN  <<user.lesson_scores, user.completed_lessons, user.current_lesson_id>>
C31_NoAnswersNoProgressWrite ==
    [][(/\ pc = "update_progress"
        /\ Get(st, "quiz_answers", <<>>) = <<>>
        /\ trace[Len(trace)] = "evaluate_quiz")
       => UserProgress(db') = UserProgress(db)]_vars

\* C33: across any sequence of update_progress calls for a user the stored
\* current_lesson_id never decreases.
C33_LessonNeverDecreases ==
    call.n > 0 =>
        db[User].current_lesson_id
            >= get_or_create_user(call.before, User)[User].current_lesson_id


\* C34: across any sequence of update_progress calls for a user,
\* completed_lessons holds no duplicate and loses no element, and a lesson id
\* enters it only through a call with passed = true for that lesson.
CompletedBefore == get_or_create_user(call.before, User)[User].completed_lessons
C34_CompletedLessonsGrow ==
    call.n > 0 =>
        LET done == db[User].completed_lessons
        IN  /\ NoDup(done)
            /\ IsPrefix(CompletedBefore, done)
            /\ \A L \in Range(done) \ Range(CompletedBefore) :
                 call.passed /\ call.lesson_id = L

\* A passed lesson entered a list that already held another one.
C34_Witness ==
    /\ call.n = MaxCalls
    /\ call.passed
    /\ Len(db[User].completed_lessons) = Len(CompletedBefore) + 1
    /\ CompletedBefore # <<>>


\* C32: for each chat message handle_message handles, exactly one message
\* of type "response" is sent and exactly one assistant message is saved,
\* whichever path the graph takes; stated for the turns with a non-empty
\* input in which no call failed.
Responses(sent) == Len(SelectSeq(sent, LAMBDA m : m.type = "response"))
MessageHandled ==
    /\ call.handler = "handle_message" /\ call.stage = "done"
    /\ call.ok /\ failed = {} /\ pc = "END"
    /\ ~IsGreetingRequest(input)
C32_OneResponsePerMessage ==
    MessageHandled => (Responses(call.sent) = 1 /\ call.saves = 1)

\* Outside the quiz chain a handled message gets one response and one save.
PlainMessageOneResponse ==
    (MessageHandled /\ ~Ran("generate_quiz"))
        => (Responses(call.sent) = 1 /\ call.saves = 1)

\* C36: handle_message starts the turn with next_action = quiz exactly when
\* the user input holds a trigger keyword (substring, ignoring case) and the
\* most recent assistant message of the stored history holds "quiz" or
\* "test your knowledge"; otherwise with next_action = continue.
HoldsAt(p, t, i) == i + Len(p) - 1 <= Len(t) /\ \A k \in 1..Len(p) : Lower(t[i + k - 1]) = p[k]
Holds(p, t) == \E i \in 1..Len(t) : HoldsAt(p, t, i)
MostRecentAssistantOffers(h) ==
    \E i \in DOMAIN h :
        /\ h[i].role = "assistant"
        /\ \A j \in (i + 1)..Len(h) : h[j].role # "assistant"
        /\ Holds(QuizWord, h[i].content) \/ Holds(TestYourKnowledge, h[i].content)
C36_QuizIntent ==
    (call.handler = "handle_message" /\ call.stage # "idle") =>
        /\ input["next_action"] \in {"quiz", "continue"}
        /\ input["next_action"] = "quiz"
             <=> /\ \E trigger \in quiz_triggers : Holds(trigger, input["user_input"])
                 /\ MostRecentAssistantOffers(input["messages"])

\* A keyword inside another word, in capitals or not, after a stored offer
\* that is not the last message: the turn starts as a quiz.
C36_Witness ==
    /\ call.handler = "handle_message"
    /\ input["user_input"] = <<"b", "o", "o", "k">>
    /\ Len(input["messages"]) = 2 /\ input["messages"][2].role = "user"
    /\ input["next_action"] = "quiz"
    /\ Ran("generate_quiz")

\* C37: for each init message handle_init sends exactly one greeting
\* response, the generated one or the fallback and never both, and saves
\* exactly one assistant message, for every outcome of the graph run and of
\* the store write.
Greetings(sent) == Len(SelectSeq(sent, LAMBDA m : m.type = "response"))
C37_OneGreetingPerInit ==
    (call.handler = "handle_init" /\ call.stage = "done") =>
        (Greetings(call.sent) = 1 /\ call.saves = 1)


\* C35: save_user(u, d) changes only the record of user u: every other
\* user's record and every course of the file is the same after the call as
\* before it, also when the read that precedes the write fails.
C35_SaveUserTouchesOneRecord ==
    call.n > 0 =>
        /\ \A v \in ConcUsers \ {call.user_id} : Opt(db.users, v) = Opt(call.before.users, v)
        /\ db.courses = call.before.courses

\* With a file that decodes, the call changes the one record only.
SaveUserOnReadableFile ==
    (call.n > 0 /\ call.before.decodable) =>
        /\ \A v \in ConcUsers \ {call.user_id} : Opt(db.users, v) = Opt(call.before.users, v)
        /\ db.courses = call.before.courses
        /\ db.users[call.user_id] = call.user_data


\* C38: a greeting turn changes only teacher_response and the greeting
\* flag: messages, phase, next_action, the quiz fields, error and the
\* progress store are at the end of the turn what they were at its start,
\* whether the LLM call succeeds or fails.
GreetingFrame == {"phase", "next_action", "quiz_questions", "quiz_answers",
                  "quiz_score", "quiz_passed", "error"}
SameAsInput ==
    /\ \A k \in GreetingFrame : Opt(st, k) = Opt(input, k)
    /\ Plain(Get(st, "messages", <<>>)) = Plain(Get(input, "messages", <<>>))
C38_GreetingTurnFrame ==
    [][(IsGreetingRequest(input) /\ pc' \in {"END", "raised"})
       => (SameAsInput' /\ pc' = "END" /\ trace' = <<"greeting">>)]_vars

\* The greeting node itself leaves all of that, and the store, alone.
GreetingNodeFrame ==
    [][(IsGreetingRequest(input) /\ pc = "greeting") => (SameAsInput' /\ db' = db)]_vars


\* C39: a login for a phone number that already has a user returns that
\* user's record only if the name supplied equals the stored name ignoring
\* case; with any other name the stored user's record is not returned.
SameName(x, y) ==
    Len(x) = Len(y) /\ \A i \in DOMAIN x : Lower(x[i]) = Lower(y[i])
C39_LoginNeedsTheName ==
    (call.n > 0 /\ UserIdOf(call.phone_number) \in DOMAIN call.before) =>
        LET stored == call.before[UserIdOf(call.phone_number)]
        IN  (/\ call.response.user_id = stored.user_id
             /\ call.response.name = stored.name)
            => SameName(call.name, stored.name)

\* authenticate_user alone returns the record for the matching name only.
AuthenticateNeedsTheName ==
    \A name \in Names, p \in Phones :
        LET a == authenticate_user(db, name, p)
        IN  a.user # <<>> => SameName(name, a.user.name)

===========================================================================
